---- MODULE Spec2Model ----
(***************************************************************************)
(* Model of src/app.py: extract_frames(video_path, fps) and the calls the  *)
(* page makes to it.  One call is a sequential run through the statements  *)
(* of extract_frames; pc names the statement about to run.  Python floats  *)
(* are modelled as IEEE-754 binary64 values (a significand of MantissaBits *)
(* bits, round-half-to-even), because int(actual_duration * fps) depends   *)
(* on the rounding of the division and of the product.                     *)
(***************************************************************************)
EXTENDS Integers, Sequences, FiniteSets, TLC

\* ------------------------------------------------------------- bounds
\* Largest number of decodable frames of the enumerated small clips.
MaxFrames == 3

\* ------------------------------------------------ Python float arithmetic
\* Significand width of a Python float (binary64).
MantissaBits == 53

\* The element of a one-element set.  An operand that is used many times is
\* bound as the element of a singleton, {body(v) : v \in {operand}}, so that
\* it is evaluated once and not at each use.
Only(S) == CHOOSE x \in S : TRUE

RECURSIVE Pow2(_)
Pow2(k) ==
    IF k = 0 THEN 1
    ELSE Only({IF k % 2 = 0 THEN h * h ELSE 2 * h * h : h \in {Pow2(k \div 2)}})

\* 2^k mod d
RECURSIVE PowMod(_, _)
PowMod(k, d) ==
    IF k = 0 THEN 1 % d
    ELSE Only({IF k % 2 = 0 THEN (h * h) % d ELSE (2 * ((h * h) % d)) % d :
               h \in {PowMod(k \div 2, d)}})

\* The binary digits of n, most significant first, in a field of `width`.
BitsOf(n, width) == [i \in 1..width |-> (n \div Pow2(width - i)) % 2]

\* The number a digit string b denotes.
RECURSIVE IntOf(_)
IntOf(b) ==
    Only({IF Len(d) = 0 THEN 0
          ELSE IF Len(d) = 1 THEN d[1]
          ELSE Only({IntOf(SubSeq(d, 1, h)) * Pow2(Len(d) - h)
                         + IntOf(SubSeq(d, h + 1, Len(d))) :
                     h \in {Len(d) \div 2}}) :
          d \in {b}})

\* b + 1 on a digit string (one digit longer when b is all ones).
Increment(b) ==
    Only({IF zeros = {} THEN <<1>> \o [i \in 1..Len(b) |-> 0]
          ELSE Only({[i \in 1..Len(b) |-> IF i < z THEN b[i] ELSE IF i = z THEN 1 ELSE 0] :
                     z \in {CHOOSE i \in zeros : \A j \in zeros : j <= i}}) :
          zeros \in {{i \in 1..Len(b) : b[i] = 0}}})

\* Round the digit string b to its first `keep` digits, ties to even.
RoundDigits(b, keep) ==
    LET guard == IF keep + 1 <= Len(b) THEN b[keep + 1] ELSE 0
        sticky == \E i \in (keep + 2)..Len(b) : b[i] = 1
        odd == keep > 0 /\ b[keep] = 1
    IN IF guard = 1 /\ (sticky \/ odd)
       THEN Only({Increment(kept) : kept \in {SubSeq(b, 1, keep)}})
       ELSE SubSeq(b, 1, keep)

RoundHalfEven(b, keep) == Only({RoundDigits(digits, keep) : digits \in {b}})

\* A float is 0.0 or [bits, exp]: the value 1.b2b3...b53 * 2^exp.
Zero == [bits |-> <<>>, exp |-> 0]

\* The float nearest to the digit string b (leading digit 1) scaled by 2^e.
Pack(b, e) ==
    Only({IF Len(r) > MantissaBits
          THEN [bits |-> SubSeq(r, 1, MantissaBits), exp |-> e + 1]
          ELSE [bits |-> r, exp |-> e] :
          r \in {RoundHalfEven(IF Len(b) < MantissaBits
                               THEN b \o [i \in 1..(MantissaBits - Len(b)) |-> 0]
                               ELSE b,
                               MantissaBits)}})

\* floor(log2(n / d)) for n, d > 0.
RECURSIVE Exponent(_, _)
Exponent(n, d) ==
    IF n >= 2 * d THEN Exponent(n, 2 * d) + 1
    ELSE IF n < d THEN Exponent(2 * n, d) - 1
    ELSE 0

\* For d <= n < 2d: the first count+1 binary digits of n / d and a last
\* digit that is 1 iff the rest of the expansion is not zero.
DivBits(n, d, count) ==
    <<1>> \o [i \in 1..count |-> (2 * (((n - d) * PowMod(i - 1, d)) % d)) \div d]
          \o <<IF ((n - d) * PowMod(count, d)) % d # 0 THEN 1 ELSE 0>>

\* n / d of two integer-valued operands, d > 0, correctly rounded.
FloatDiv(n, d) ==
    IF n = 0 THEN Zero
    ELSE Only({Pack(Only({DivBits(nn, dd, MantissaBits) :
                          nn \in {IF e < 0 THEN n * Pow2(-e) ELSE n},
                          dd \in {IF e > 0 THEN d * Pow2(e) ELSE d}}), e) :
               e \in {Exponent(n, d)}})

\* limbs[1..i] (base 8192, most significant first) times t, plus carry.
RECURSIVE MulLimbs(_, _, _, _)
MulLimbs(limbs, i, t, carry) ==
    IF i = 0 THEN <<carry>>
    ELSE Only({MulLimbs(limbs, i - 1, t, v \div 8192) \o <<v % 8192>> :
               v \in {limbs[i] * t + carry}})

\* The digits of prod, six limbs, without leading zeros.
LimbDigits(prod) ==
    Only({SubSeq(wide, CHOOSE i \in 1..Len(wide) : wide[i] = 1 /\ \A j \in 1..(i - 1) : wide[j] = 0,
                 Len(wide)) :
          wide \in {BitsOf(prod[1], 30) \o BitsOf(prod[2], 13) \o BitsOf(prod[3], 13)
                        \o BitsOf(prod[4], 13) \o BitsOf(prod[5], 13) \o BitsOf(prod[6], 13)}})

\* The significand b as five limbs.
Limbs(b) ==
    Only({<<IntOf(SubSeq(padded, 1, 13)), IntOf(SubSeq(padded, 14, 26)),
            IntOf(SubSeq(padded, 27, 39)), IntOf(SubSeq(padded, 40, 52)),
            IntOf(SubSeq(padded, 53, 65))>> :
          padded \in {[i \in 1..(65 - Len(b)) |-> 0] \o b}})

\* The exact product of the significand b and the integer t > 0, as digits.
MulBits(b, t) ==
    Only({LimbDigits(prod) :
          prod \in {Only({MulLimbs(limbs, 5, t, 0) : limbs \in {Limbs(b)}})}})

\* x * t for a float x >= 0 and an integer-valued float t, correctly rounded.
FloatMul(x, t) ==
    IF x = Zero \/ t = 0 THEN Zero
    ELSE Only({Pack(p, x.exp + Len(p) - MantissaBits) : p \in {MulBits(x.bits, t)}})

\* int(x): truncation.
FloatTrunc(x) ==
    IF x = Zero \/ x.exp < 0 THEN 0 ELSE IntOf(SubSeq(x.bits, 1, x.exp + 1))

\* round(x): Python 3 rounds to the nearest integer, ties to even.
FloatRound(x) ==
    IF x = Zero \/ x.exp < -1 THEN 0 ELSE IntOf(RoundHalfEven(x.bits, x.exp + 1))

Max(a, b) == IF a >= b THEN a ELSE b

\* ------------------------------------------------------- names and paths
\* A file name is a sequence of text tokens; a path is a sequence of names;
\* None is the empty path.
None == <<>>

Digits == <<"0", "1", "2", "3", "4", "5", "6", "7", "8", "9">>

DigitChar(d) == Digits[d + 1]

RECURSIVE Decimal(_)
Decimal(n) == IF n < 10 THEN <<DigitChar(n)>> ELSE Append(Decimal(n \div 10), DigitChar(n % 10))

\* f"{n:06d}": at least six digits, zero-padded on the left.
Format06d(n) ==
    LET d == Decimal(n)
    IN IF Len(d) < 6 THEN [i \in 1..(6 - Len(d)) |-> "0"] \o d ELSE d

FrameFilename_FromOne(count) == <<"frame_">> \o Format06d(count + 1) \o <<".jpg">>

\* f"frame_{extracted_count:06d}.jpg"
FrameFilename(count) == <<"frame_">> \o Format06d(count) \o <<".jpg">>

ZipFilename == <<"extracted_frames", ".zip">>

\* The directory tempfile.mkdtemp(prefix="frames_") returns.
TempDirPath == << <<"frames_">> >>

\* os.path.join(directory, name)
Join(dir, name) == Append(dir, name)

\* os.path.relpath(path, start) for a path below start.
RelPath(path, start) == SubSeq(path, Len(start) + 1, Len(path))

EndsWithJpg_Any(name) == TRUE

\* file.endswith('.jpg')
EndsWithJpg(name) == name[Len(name)] = ".jpg"

\* ---------------------------------------------------------------- inputs
\* A clip is what cv2.VideoCapture finds at video_path: whether it opens, the
\* number of frames that decode, and the container's frame rate and count.
SmallClips ==
    [openable : {TRUE}, frames : 0..MaxFrames, video_fps : {0, 2, 49},
     total_frames : {0, 300}]

BadClip == [openable |-> FALSE, frames |-> 0, video_fps |-> 0, total_frames |-> 0]

\* 150 decodable frames under metadata that says 300 frames at 30 fps.
ScenarioClip == [openable |-> TRUE, frames |-> 150, video_fps |-> 30, total_frames |-> 300]

TargetRates == {1, 49}

Inputs ==
    ((SmallClips \cup {BadClip}) \X TargetRates) \cup {<<ScenarioClip, 5>>}

NoCall ==
    [valid |-> FALSE, frames |-> 0, fps |-> 0, video_fps |-> 0, total_frames |-> 0,
     frame_interval |-> 0, extracted_count |-> 0, kept |-> {}]

VARIABLES
    prev,                   \* what the last successful call was given and did
    video,                  \* the clip at video_path
    fps,                    \* the fps argument
    pc,                     \* the statement about to run
    exc,                    \* the statement that raised, "none" if none did
    temp_dir,               \* whether mkdtemp has made the directory
    files,                  \* the files in the temporary directory
    cap,                    \* "none", "opened", "failed" (isOpened is false), "released"
    pos,                    \* the capture's position: frames decoded since open or rewind
    reads,                  \* cap.read() calls made
    total_frames, video_fps, duration,
    frames_read, frame_idx, extracted_count,
    actual_duration, expected_output_frames, frame_interval,
    archive,                \* the entries written to the ZIP file
    result                  \* the pair the call returned

vars ==
    <<prev, video, fps, pc, exc, temp_dir, files, cap, pos, reads,
      total_frames, video_fps, duration, frames_read, frame_idx, extracted_count,
      actual_duration, expected_output_frames, frame_interval, archive, result>>

locals ==
    <<total_frames, video_fps, duration, frames_read, frame_idx, extracted_count,
      actual_duration, expected_output_frames, frame_interval>>

NoResult == [message |-> "none", zip_path |-> None]

\* The frame images in the temporary directory.
Images == {f \in files : f.name[1] = "frame_"}

\* The decode indices of the frames kept so far.
Kept == {f.content : f \in Images}

Init ==
    /\ prev = NoCall
    /\ video = BadClip
    /\ fps = 1
    /\ pc = "idle"
    /\ exc = "none"
    /\ temp_dir = FALSE
    /\ files = {}
    /\ cap = "none"
    /\ pos = 0
    /\ reads = 0
    /\ total_frames = 0
    /\ video_fps = 0
    /\ duration = Zero
    /\ frames_read = 0
    /\ frame_idx = 0
    /\ extracted_count = 0
    /\ actual_duration = Zero
    /\ expected_output_frames = 0
    /\ frame_interval = 0
    /\ archive = {}
    /\ result = NoResult

\* A statement raises: control goes to the except clause.
Raise(at) ==
    /\ pc' = "except"
    /\ exc' = at

\* The page calls extract_frames(tmp_file_path, fps_input).
StartCall ==
    /\ pc \in {"idle", "returned"}
    /\ \E in \in Inputs :
        /\ video' = in[1]
        /\ fps' = in[2]
    /\ prev' =
        IF pc = "returned" /\ result.message = "success"
        THEN [valid |-> TRUE, frames |-> video.frames, fps |-> fps,
              video_fps |-> video_fps, total_frames |-> total_frames,
              frame_interval |-> frame_interval,
              extracted_count |-> extracted_count, kept |-> Kept]
        ELSE prev
    /\ pc' = "mkdtemp"
    /\ exc' = "none"
    /\ temp_dir' = FALSE
    /\ files' = {}
    /\ cap' = "none"
    /\ pos' = 0
    /\ reads' = 0
    /\ total_frames' = 0
    /\ video_fps' = 0
    /\ duration' = Zero
    /\ frames_read' = 0
    /\ frame_idx' = 0
    /\ extracted_count' = 0
    /\ actual_duration' = Zero
    /\ expected_output_frames' = 0
    /\ frame_interval' = 0
    /\ archive' = {}
    /\ result' = NoResult

\* temp_dir = tempfile.mkdtemp(prefix="frames_")
Mkdtemp ==
    /\ pc = "mkdtemp"
    /\ \E ok \in BOOLEAN :
        IF ok
        THEN /\ temp_dir' = TRUE
             /\ files' = {}
             /\ pc' = "open"
             /\ exc' = exc
        ELSE /\ Raise("mkdtemp")
             /\ UNCHANGED <<temp_dir, files>>
    /\ UNCHANGED <<prev, video, fps, cap, pos, reads, locals, archive, result>>

Open_Unchecked ==
    /\ pc = "open"
    /\ cap' = IF video.openable THEN "opened" ELSE "failed"
    /\ pos' = 0
    /\ pc' = "metadata"
    /\ UNCHANGED <<prev, video, fps, exc, temp_dir, files, reads, locals,
                   archive, result>>

\* cap = cv2.VideoCapture(video_path); if not cap.isOpened(): return ...
Open ==
    /\ pc = "open"
    /\ cap' = IF video.openable THEN "opened" ELSE "failed"
    /\ pos' = 0
    /\ IF video.openable
       THEN /\ pc' = "metadata"
            /\ result' = result
       ELSE /\ pc' = "returned"
            /\ result' = [message |-> "Error: Could not open video file",
                          zip_path |-> None]
    /\ UNCHANGED <<prev, video, fps, exc, temp_dir, files, reads, locals,
                   archive>>

\* total_frames, video_fps, duration = total_frames / video_fps; the counters.
Metadata ==
    /\ pc = "metadata"
    /\ total_frames' = video.total_frames
    /\ video_fps' = video.video_fps
    /\ IF video.video_fps = 0
       THEN /\ Raise("ZeroDivisionError")
            /\ UNCHANGED <<duration, extracted_count, frame_idx, frames_read>>
       ELSE /\ duration' = FloatDiv(video.total_frames, video.video_fps)
            /\ extracted_count' = 0
            /\ frame_idx' = 0
            /\ frames_read' = 0
            /\ pc' = "pass1"
            /\ exc' = exc
    /\ UNCHANGED <<prev, video, fps, temp_dir, files, cap, pos, reads,
                   actual_duration, expected_output_frames, frame_interval,
                   archive, result>>

\* First pass, a frame decodes: frames_read += 1.
Pass1Frame ==
    /\ pc = "pass1"
    /\ pos < video.frames
    /\ reads' = reads + 1
    /\ \E ok \in BOOLEAN :
        IF ok
        THEN /\ pos' = pos + 1
             /\ frames_read' = frames_read + 1
             /\ UNCHANGED <<pc, exc>>
        ELSE /\ Raise("read")
             /\ UNCHANGED <<pos, frames_read>>
    /\ UNCHANGED <<prev, video, fps, temp_dir, files, cap, total_frames,
                   video_fps, duration, frame_idx, extracted_count, actual_duration,
                   expected_output_frames, frame_interval, archive, result>>

\* First pass, cap.read() returns no frame: break.
Pass1End ==
    /\ pc = "pass1"
    /\ pos >= video.frames
    /\ reads' = reads + 1
    /\ pc' = "plan"
    /\ UNCHANGED <<prev, video, fps, exc, temp_dir, files, cap, pos, locals,
                   archive, result>>

\* actual_duration = frames_read / video_fps
ActualDuration(read, rate) == FloatDiv(read, rate)

\* expected_output_frames = int(actual_duration * fps)
ExpectedOutputFrames(seconds, rate) ==
    Only({FloatTrunc(product) : product \in {FloatMul(seconds, rate)}})

\* max(1, int(round(frames_read / expected_output_frames)))
\*     if expected_output_frames > 0 else 1
FrameInterval(read, expected) ==
    IF expected > 0
    THEN Only({Max(1, FloatRound(ratio)) : ratio \in {FloatDiv(read, expected)}})
    ELSE 1

Plan_NoRewind ==
    /\ pc = "plan"
    /\ actual_duration' = ActualDuration(frames_read, video_fps)
    /\ expected_output_frames' = ExpectedOutputFrames(actual_duration', fps)
    /\ frame_interval' = FrameInterval(frames_read, expected_output_frames')
    /\ frame_idx' = 0
    /\ pc' = "pass2"
    /\ UNCHANGED <<prev, video, fps, exc, temp_dir, files, cap, pos, reads,
                   total_frames, video_fps, duration, frames_read, extracted_count,
                   archive, result>>

Plan_FromMetadata ==
    /\ pc = "plan"
    /\ actual_duration' = ActualDuration(frames_read, video_fps)
    /\ pos' = 0
    /\ expected_output_frames' = ExpectedOutputFrames(actual_duration', fps)
    /\ frame_interval' = FrameInterval(total_frames, expected_output_frames')
    /\ frame_idx' = 0
    /\ pc' = "pass2"
    /\ UNCHANGED <<prev, video, fps, exc, temp_dir, files, cap, reads,
                   total_frames, video_fps, duration, frames_read, extracted_count,
                   archive, result>>

\* The actual duration, the rewind, the expected output count and the interval.
Plan ==
    /\ pc = "plan"
    /\ actual_duration' = ActualDuration(frames_read, video_fps)
    /\ pos' = 0
    /\ expected_output_frames' = ExpectedOutputFrames(actual_duration', fps)
    /\ frame_interval' = FrameInterval(frames_read, expected_output_frames')
    /\ frame_idx' = 0
    /\ pc' = "pass2"
    /\ UNCHANGED <<prev, video, fps, exc, temp_dir, files, cap, reads,
                   total_frames, video_fps, duration, frames_read, extracted_count,
                   archive, result>>

\* Second pass, a frame decodes: it is written when frame_idx is a multiple
\* of frame_interval, and frame_idx += 1.
Pass2Frame ==
    /\ pc = "pass2"
    /\ pos < video.frames
    /\ reads' = reads + 1
    /\ \E ok \in BOOLEAN :
        IF ~ok
        THEN /\ Raise("read")
             /\ UNCHANGED <<pos, files, extracted_count, frame_idx>>
        ELSE /\ pos' = pos + 1
             /\ IF frame_idx % frame_interval = 0
                THEN \E written \in BOOLEAN :
                        IF written
                        THEN /\ files' =
                                  {f \in files : f.name # FrameFilename(extracted_count)}
                                  \cup {[name |-> FrameFilename(extracted_count),
                                         content |-> pos]}
                             /\ extracted_count' = extracted_count + 1
                             /\ frame_idx' = frame_idx + 1
                             /\ UNCHANGED <<pc, exc>>
                        ELSE /\ Raise("imwrite")
                             /\ UNCHANGED <<files, extracted_count, frame_idx>>
                ELSE /\ frame_idx' = frame_idx + 1
                     /\ UNCHANGED <<files, extracted_count, pc, exc>>
    /\ UNCHANGED <<prev, video, fps, temp_dir, cap, total_frames, video_fps,
                   duration, frames_read, actual_duration, expected_output_frames,
                   frame_interval, archive, result>>

Pass2End_Retry ==
    /\ pc = "pass2"
    /\ pos >= video.frames
    /\ reads' = 0
    /\ pos' = 0
    /\ frame_idx' = 0
    /\ extracted_count' = 0
    /\ UNCHANGED <<prev, video, fps, pc, exc, temp_dir, files, cap,
                   total_frames, video_fps, duration, frames_read, actual_duration,
                   expected_output_frames, frame_interval, archive, result>>

\* Second pass, cap.read() returns no frame: break.
Pass2End ==
    /\ pc = "pass2"
    /\ pos >= video.frames
    /\ reads' = reads + 1
    /\ pc' = "release"
    /\ UNCHANGED <<prev, video, fps, exc, temp_dir, files, cap, pos, locals,
                   archive, result>>

\* cap.release()
Release ==
    /\ pc = "release"
    /\ cap' = "released"
    /\ pc' = "zip"
    /\ UNCHANGED <<prev, video, fps, exc, temp_dir, files, pos, reads, locals,
                   archive, result>>

\* The entry zipf.write(file_path, arcname) adds for a file of the directory.
ZipEntry(f) ==
    [arcname |-> RelPath(Join(TempDirPath, f.name), TempDirPath), content |-> f.content]

\* The ZIP file is created in the directory, then every file the walk of the
\* directory lists whose name ends in .jpg is written to it.
ZipFrames ==
    /\ pc = "zip"
    /\ \E ok \in BOOLEAN :
        LET listed == files \cup {[name |-> ZipFilename, content |-> -1]}
        IN /\ files' = listed
           /\ IF ok
              THEN /\ archive' = {ZipEntry(f) : f \in {g \in listed : EndsWithJpg(g.name)}}
                   /\ pc' = "return"
                   /\ exc' = exc
              ELSE /\ archive' = {}
                   /\ Raise("zip")
    /\ UNCHANGED <<prev, video, fps, temp_dir, cap, pos, reads, locals, result>>

\* return success_message, zip_path
Return ==
    /\ pc = "return"
    /\ result' = [message |-> "success", zip_path |-> Join(TempDirPath, ZipFilename)]
    /\ pc' = "returned"
    /\ UNCHANGED <<prev, video, fps, exc, temp_dir, files, cap, pos, reads,
                   locals, archive>>

Except_OSErrorOnly ==
    /\ pc = "except"
    /\ IF exc \in {"mkdtemp", "zip", "imwrite"}
       THEN /\ result' = [message |-> "Error", zip_path |-> None]
            /\ pc' = "returned"
       ELSE /\ result' = result
            /\ pc' = "escaped"
    /\ UNCHANGED <<prev, video, fps, exc, temp_dir, files, cap, pos, reads,
                   locals, archive>>

\* except Exception as e: return f"Error: {str(e)}", None
Except ==
    /\ pc = "except"
    /\ result' = [message |-> "Error", zip_path |-> None]
    /\ pc' = "returned"
    /\ UNCHANGED <<prev, video, fps, exc, temp_dir, files, cap, pos, reads,
                   locals, archive>>

\* The statements of one call.
Step ==
    \/ Mkdtemp
    \/ Open
    \/ Metadata
    \/ Pass1Frame
    \/ Pass1End
    \/ Plan
    \/ Pass2Frame
    \/ Pass2End
    \/ Release
    \/ ZipFrames
    \/ Return
    \/ Except

Next == StartCall \/ Step

Spec == Init /\ [][Next]_vars

\* A call runs on the calling thread until it returns: no statement waits.
FairSpec == Spec /\ WF_vars(Step)

\* ---------------------------------------------------------------- claims
\* The call has planned its sampling: Plan has set frame_interval.
Planned == frame_interval > 0

\* The call returned the success message and the archive's path.
Succeeded == pc = "returned" /\ result.zip_path # None

\* The files of the temporary directory other than the archive.
FrameFiles == {f \in files : f.name # ZipFilename}

\* The digit a character denotes, and the number a string of digits denotes.
DigitValue(c) == CHOOSE d \in 0..9 : DigitChar(d) = c

RECURSIVE ParseInt(_)
ParseInt(s) ==
    IF s = <<>> THEN 0 ELSE 10 * ParseInt(SubSeq(s, 1, Len(s) - 1)) + DigitValue(s[Len(s)])

\* The output index a frame file's name carries.
IndexOf(f) == ParseInt(SubSeq(f.name, 2, Len(f.name) - 1))

\* ceil(n / d)
CeilDiv(n, d) == (n + d - 1) \div d

\* r is an integer nearest to n / d.
Nearest(r, n, d) == 2 * r * d - 2 * n <= d /\ 2 * n - 2 * r * d <= d

\* C1: once the sampling is planned, expected_output_frames is
\* floor((N / R) * targetFps) and frame_interval is max(1, round(N /
\* expected_output_frames)) when that count is positive and 1 when it is 0,
\* for N the number of decodable frames and R the nominal frame rate.
C1_PlanIsExact ==
    Planned =>
        LET N == video.frames
            E == (N * fps) \div video_fps
        IN /\ expected_output_frames = E
           /\ E = 0 => frame_interval = 1
           /\ E > 0 => \E r \in 0..N : Nearest(r, N, E) /\ frame_interval = Max(1, r)

\* C2: a successful call has kept exactly the decode indices i in 0..N-1
\* with i mod frame_interval = 0, so extracted_count = ceil(N / frame_interval);
\* 150 frames at a nominal 30 fps with a target of 5 fps give an interval
\* of 6 and 25 frames.
C2_KeepsEveryIntervalth ==
    Succeeded =>
        /\ Kept = {i \in 0..(video.frames - 1) : i % frame_interval = 0}
        /\ extracted_count = CeilDiv(video.frames, frame_interval)
        /\ (video = ScenarioClip /\ fps = 5) =>
               (frame_interval = 6 /\ extracted_count = 25)

C2_Witness == Succeeded /\ video = ScenarioClip /\ fps = 5 /\ Cardinality(Kept) = 25

\* C3: when the target rate is at least the nominal frame rate, a successful
\* call has frame_interval = 1 and has kept every decodable frame.
C3_NativeRateKeepsAll ==
    (Succeeded /\ fps >= video_fps) =>
        (frame_interval = 1 /\ extracted_count = video.frames)

C5_NeverRaises ==
    /\ pc # "escaped"
    /\ (pc = "returned" /\ exc # "none") =>
           (result.message = "Error" /\ result.zip_path = None)

C5_Witness == pc = "returned" /\ exc = "read" /\ FrameFiles # {}

\* C6: whenever extract_frames has returned, the capture is not left open.
C6_ReleasedOnReturn == pc = "returned" => cap # "opened"

\* C7: when the source does not open, the call has returned the open-failure
\* message and no archive path, has read no frame and has put no file in
\* the temporary directory.
C7_OpenFailure ==
    cap = "failed" =>
        /\ pc = "returned"
        /\ result = [message |-> "Error: Could not open video file", zip_path |-> None]
        /\ reads = 0
        /\ files = {}
        /\ archive = {}

C7_Witness == cap = "failed" /\ temp_dir /\ pc = "returned"

\* C8: the archive of a successful call holds exactly one entry per frame
\* file written in pass 2, extracted_count entries in all, each under the
\* file's own name without a directory and with the file's content, and no
\* entry for the archive itself.
C8_ArchiveHoldsFrames ==
    Succeeded =>
        /\ archive = {[arcname |-> <<f.name>>, content |-> f.content] : f \in FrameFiles}
        /\ Cardinality(archive) = extracted_count
        /\ \A e \in archive : Len(e.arcname) = 1 /\ e.arcname[1] # ZipFilename

C8_Witness == Succeeded /\ Cardinality(archive) > 1 /\ ZipFilename \in {f.name : f \in files}

\* The call that returned and the last successful call before it decoded the
\* same number of frames under the same target rate.
SameFramesAndTarget ==
    Succeeded /\ prev.valid /\ prev.frames = video.frames /\ prev.fps = fps

SameSampling ==
    /\ frame_interval = prev.frame_interval
    /\ Kept = prev.kept
    /\ extracted_count = prev.extracted_count

\* C9 as stated: two successful calls over the same frames with the same
\* target rate sample alike whatever the nominal frame rate and the nominal
\* frame count say.
C9_MetadataNeverDrives == SameFramesAndTarget => SameSampling

\* C9 as amended: two successful calls over the same frames with the same
\* target rate and the same nominal frame rate sample alike whatever the
\* nominal frame count (and the nominal duration derived from it) says.
C9_FrameCountNeverDrives ==
    (SameFramesAndTarget /\ prev.video_fps = video_fps) => SameSampling

C9_Witness ==
    /\ SameFramesAndTarget
    /\ prev.video_fps = video_fps
    /\ prev.total_frames # total_frames
    /\ frame_interval > 1

\* C10: a call that has started returns, and a successful call has made
\* each pass's reads once: one per frame and the one that finds the end.
C10_CallReturns ==
    /\ (pc = "mkdtemp") ~> (pc = "returned")
    /\ [](Succeeded => reads = 2 * (video.frames + 1))

C10_Witness == Succeeded /\ video.frames > 1 /\ reads = 2 * (video.frames + 1)

====
